---- MODULE Spec2Model ----
(***************************************************************************)
(* Model of src/utils.py: parse_nist_param(b).                             *)
(*                                                                         *)
(* A Python str is modelled as a sequence of one-character strings, so the *)
(* output "0xcd, 0xab," is the sequence <<"0","x","c","d",","," ",...>>.   *)
(* One call is modelled: the argument is drawn from every string over      *)
(* Alphabet of length at most MaxLen, and the two statements of the body   *)
(* (line 9 and line 10) are the two actions.                               *)
(***************************************************************************)
EXTENDS Integers, Sequences, FiniteSets, TLC

VARIABLES input, b, result, pc

vars == <<input, b, result, pc>>

(* Longest argument string that is explored. *)
MaxLen == 5

(* Characters the argument is built from: lower- and upper-case hex digits, *)
(* a decimal digit, the two separators the code removes (space, newline),   *)
(* and two characters that are neither (an upper-case letter beyond F and a *)
(* tab).                                                                    *)
Alphabet == {"a", "B", "7", " ", "\n", "G", "\t"}

RECURSIVE StringsUpTo(_)
StringsUpTo(n) ==
    IF n = 0 THEN {<<>>}
    ELSE LET shorter == StringsUpTo(n - 1)
         IN  shorter \cup {Append(s, c) : s \in {t \in shorter : Len(t) = n - 1}, c \in Alphabet}

Inputs == StringsUpTo(MaxLen)

(***************************************************************************)
(* Python built-ins used by the function.                                  *)
(***************************************************************************)

(* str.replace(old, new) for a one-character `old`, replacing only the     *)
(* first occurrence (what replace(old, new, 1) would do).                  *)
RECURSIVE str_replace_first(_, _, _)
str_replace_first(s, old, new) ==
    IF s = <<>> THEN <<>>
    ELSE IF Head(s) = old THEN new \o Tail(s)
    ELSE <<Head(s)>> \o str_replace_first(Tail(s), old, new)

(* str.replace(old, new) for a one-character `old`: every occurrence, left *)
(* to right, is replaced by `new`.                                         *)
RECURSIVE str_replace(_, _, _)
str_replace(s, old, new) ==
    IF s = <<>> THEN <<>>
    ELSE (IF Head(s) = old THEN new ELSE <<Head(s)>>) \o str_replace(Tail(s), old, new)

(* range that stops before a last incomplete step:                         *)
(* range(start, stop - (stop - start) % step, step).                       *)
range_whole_steps(start, stop, step) ==
    IF stop <= start THEN <<>>
    ELSE [k \in 1..((stop - start) \div step) |-> start + (k - 1) * step]

(* range with the stop value included: range(start, stop + 1, step).       *)
range_inclusive(start, stop, step) ==
    [k \in 1..((stop - start) \div step + 1) |-> start + (k - 1) * step]

(* range(start, stop, step) for step > 0, as the list of its values.       *)
range(start, stop, step) ==
    IF stop <= start THEN <<>>
    ELSE [k \in 1..((stop - start + step - 1) \div step) |-> start + (k - 1) * step]

(* The value that stands for a raised IndexError.                          *)
IndexError == <<"IndexError">>

(* Subscripting the characters one by one (s[lo] + s[lo+1]): raises when   *)
(* an index is past the end.                                               *)
subscript_pair(s, lo, hi) ==
    IF hi > Len(s) THEN IndexError ELSE SubSeq(s, lo + 1, hi)

(* The slice s[lo:hi] for 0 <= lo <= hi: indices are 0-based, hi is        *)
(* exclusive and is clamped to len(s); a slice never raises.               *)
slice(s, lo, hi) ==
    SubSeq(s, lo + 1, IF hi > Len(s) THEN Len(s) ELSE hi)

UpperCase == <<"A","B","C","D","E","F","G","H","I","J","K","L","M",
               "N","O","P","Q","R","S","T","U","V","W","X","Y","Z">>
LowerCase == <<"a","b","c","d","e","f","g","h","i","j","k","l","m",
               "n","o","p","q","r","s","t","u","v","w","x","y","z">>

(* A lower() that leaves every character as it is.                         *)
lower_identity(s) == s

(* str.lower() on ASCII text: each upper-case letter becomes its           *)
(* lower-case letter, every other character is kept.                       *)
lower(s) ==
    [k \in 1..Len(s) |->
        IF \E i \in 1..26 : UpperCase[i] = s[k]
        THEN LowerCase[CHOOSE i \in 1..26 : UpperCase[i] = s[k]]
        ELSE s[k]]

(* The literal with the comma in front of the digits.                      *)
literal_comma_first(chunk) == <<",", "0", "x">> \o lower(chunk)

(* f"0x{chunk.lower()},"                                                   *)
literal(chunk) == <<"0", "x">> \o lower(chunk) \o <<",">>

(* A list left in its original order.                                      *)
not_reversed(l) == l

(* list(reversed(l))                                                       *)
reversed(l) == [k \in 1..Len(l) |-> l[Len(l) + 1 - k]]

(* A join that also puts the separator after the last item.                *)
RECURSIVE join_trailing(_, _)
join_trailing(sep, l) ==
    IF l = <<>> THEN <<>>
    ELSE Head(l) \o sep \o join_trailing(sep, Tail(l))

(* sep.join(l): the items with sep between consecutive items.              *)
RECURSIVE join(_, _)
join(sep, l) ==
    IF l = <<>> THEN <<>>
    ELSE IF Len(l) = 1 THEN Head(l)
    ELSE Head(l) \o sep \o join(sep, Tail(l))

(***************************************************************************)
(* The two statements of parse_nist_param.                                 *)
(***************************************************************************)

(* Removal of the tab as well as of the space and the newline.             *)
strip_whitespace(s) ==
    str_replace(str_replace(str_replace(s, " ", <<>>), "\n", <<>>), "\t", <<>>)

(* Removal of the space only, the newline left in.                         *)
strip_spaces_only(s) == str_replace(s, " ", <<>>)

(* Line 9: b.replace(' ', '').replace("\n", "")                            *)
strip_separators(s) == str_replace(str_replace(s, " ", <<>>), "\n", <<>>)

(* Line 10, the list comprehension's chunks: b[i:i+2] for i in range(...)  *)
chunks(s) ==
    LET idx == range(0, Len(s), 2)
    IN  [k \in 1..Len(idx) |-> slice(s, idx[k], idx[k] + 2)]

(* Line 10, the returned value for chunks that were all computed.          *)
format_chunks(cs) ==
    join(<<" ">>, reversed([k \in 1..Len(cs) |-> literal(cs[k])]))

(* The whole function, as the value it returns.                            *)
parse_nist_param(s) == format_chunks(chunks(strip_separators(s)))

(***************************************************************************)
(* One call of the function.                                               *)
(***************************************************************************)
Init ==
    /\ input \in Inputs
    /\ b = input
    /\ result = <<>>
    /\ pc = "line9"

Line9 ==
    /\ pc = "line9"
    /\ b' = strip_separators(b)
    /\ pc' = "line10"
    /\ UNCHANGED <<input, result>>

(* An exception raised while a chunk is evaluated leaves the function      *)
(* without a return value.                                                 *)
Line10 ==
    /\ pc = "line10"
    /\ LET cs == chunks(b)
       IN  IF \E k \in 1..Len(cs) : cs[k] = IndexError
           THEN /\ pc' = "raised"
                /\ result' = result
           ELSE /\ pc' = "done"
                /\ result' = format_chunks(cs)
    /\ UNCHANGED <<input, b>>

Next == Line9 \/ Line10

Spec == Init /\ [][Next]_vars

TypeOK ==
    /\ input \in Inputs
    /\ pc \in {"line9", "line10", "done", "raised"}

(***************************************************************************)
(* Vocabulary of the properties: what the specification calls the cleaned  *)
(* input, a hex digit, a token and a payload.  None of it is taken from    *)
(* the definitions of the function above.                                  *)
(***************************************************************************)
Separators == {" ", "\n"}

HexDigits == {"0","1","2","3","4","5","6","7","8","9",
              "a","b","c","d","e","f","A","B","C","D","E","F"}

UpperHexDigits == {"A","B","C","D","E","F"}

(* The input with every space and every newline removed.                   *)
Cleaned(s) == SelectSeq(s, LAMBDA c : c \notin Separators)

IsHexString(s) == \A k \in 1..Len(s) : s[k] \in HexDigits

(* The input is hex digits and separators, an even number of digits.       *)
EvenHex(s) == IsHexString(Cleaned(s)) /\ Len(Cleaned(s)) % 2 = 0

(* The lower-case form of one character.                                   *)
LowerOf(c) ==
    CASE c = "A" -> "a" [] c = "B" -> "b" [] c = "C" -> "c" [] c = "D" -> "d"
      [] c = "E" -> "e" [] c = "F" -> "f" [] c = "G" -> "g" [] OTHER -> c

(* The upper-case form of one character.                                   *)
UpperOf(c) ==
    CASE c = "a" -> "A" [] c = "b" -> "B" [] c = "c" -> "C" [] c = "d" -> "D"
      [] c = "e" -> "E" [] c = "f" -> "F" [] c = "g" -> "G" [] OTHER -> c

Lowercased(s) == [k \in 1..Len(s) |-> LowerOf(s[k])]
Uppercased(s) == [k \in 1..Len(s) |-> UpperOf(s[k])]

(* The lower-case form of a hex digit; any other character unchanged.      *)
LowerHexOnly(c) == IF c \in UpperHexDigits THEN LowerOf(c) ELSE c

(* The k-th character of s (1-based), or a filler when there is none.      *)
At(s, k) == IF k \in 1..Len(s) THEN s[k] ELSE "<none>"

(* The five characters of the i-th token (0-based) of an output whose      *)
(* tokens are all full byte literals.                                      *)
TokenAt(out, i) == [k \in 1..5 |-> At(out, 6 * i + k)]

(* The pieces of an output between its space characters.                   *)
RECURSIVE SplitOnSpace(_, _)
SplitOnSpace(out, piece) ==
    IF out = <<>> THEN <<piece>>
    ELSE IF Head(out) = " " THEN <<piece>> \o SplitOnSpace(Tail(out), <<>>)
    ELSE SplitOnSpace(Tail(out), Append(piece, Head(out)))

Tokens(out) == IF out = <<>> THEN <<>> ELSE SplitOnSpace(out, <<>>)

(* The characters of a token between its "0x" and its comma.               *)
Payload(token) == SubSeq(token, 3, Len(token) - 1)

RECURSIVE ConcatBackwards(_)
ConcatBackwards(l) ==
    IF l = <<>> THEN <<>> ELSE ConcatBackwards(Tail(l)) \o Head(l)

(* s with the characters w inserted after its first k characters.          *)
InsertAt(s, k, w) == SubSeq(s, 1, k) \o w \o SubSeq(s, k + 1, Len(s))

(* s without its k-th character.                                           *)
RemoveAt(s, k) == SubSeq(s, 1, k - 1) \o SubSeq(s, k + 1, Len(s))

(* Runs of separators that are inserted.                                   *)
SeparatorRuns ==
    {<<c>> : c \in Separators} \cup {<<c, d>> : c \in Separators, d \in Separators}

(* Position k of s lies between two byte pairs (or at the start or end).   *)
BetweenPairs(s, k) ==
    \/ k = 0
    \/ k = Len(s)
    \/ Len(Cleaned(SubSeq(s, 1, k))) % 2 = 0

(* The output the specification describes for the characters c of the     *)
(* chunks: the chunks from the left, each as "0x" + chunk + ",", in        *)
(* reverse order with one space between them.                              *)
RECURSIVE Described(_)
Described(c) ==
    IF c = <<>> THEN <<>>
    ELSE IF Len(c) <= 2 THEN <<"0", "x">> \o c \o <<",">>
    ELSE Described(SubSeq(c, 3, Len(c))) \o <<" ">> \o <<"0", "x", c[1], c[2], ",">>

(***************************************************************************)
(* Properties.                                                             *)
(***************************************************************************)

(* C1: for an even-length hex input with bytes c_0 .. c_(n-1), the i-th    *)
(* output token is "0x" + lowercased c_(n-1-i) + ",": the tokens are in    *)
(* exactly reversed order, the last byte first.                            *)
C1_ReversedTokens ==
    (pc = "done" /\ EvenHex(input)) =>
        LET c == Cleaned(input)
            n == Len(c) \div 2
        IN  \A i \in 0..(n - 1) :
                TokenAt(result, i) =
                    <<"0", "x", LowerOf(c[2 * (n - 1 - i) + 1]),
                      LowerOf(c[2 * (n - 1 - i) + 2]), ",">>

(* C1 witness: a returned call on two different bytes, written in upper    *)
(* case and with a separator between them.                                 *)
C1_Witness ==
    /\ pc = "done"
    /\ EvenHex(input)
    /\ Cleaned(input) = <<"B", "B", "a", "7">>
    /\ Len(input) > 4
    /\ result = <<"0","x","a","7",","," ","0","x","b","b",",">>

(* C2: for an even-length hex input of 2n digits the output has exactly n  *)
(* tokens, one space between consecutive tokens, and no leading or         *)
(* trailing separator (it starts with "0x" and ends with a comma).         *)
C2_TokenCountAndSeparators ==
    (pc = "done" /\ EvenHex(input)) =>
        LET n == Len(Cleaned(input)) \div 2
        IN  /\ Len(Tokens(result)) = n
            /\ \A i \in 1..Len(Tokens(result)) : Len(Tokens(result)[i]) = 5
            /\ \A k \in 1..Len(result) :
                   (result[k] = " ") => (k > 1 /\ k < Len(result) /\ At(result, k + 1) # " ")
            /\ (n >= 1) => /\ At(result, 1) = "0"
                           /\ At(result, 2) = "x"
                           /\ At(result, Len(result)) = ","

(* C2 witness: a returned call on two bytes.                               *)
C2_Witness ==
    /\ pc = "done"
    /\ EvenHex(input)
    /\ Len(Cleaned(input)) = 4
    /\ Len(Tokens(result)) = 2
    /\ Len(result) = 11

(* C3: round trip: the payloads of the output tokens, reversed and         *)
(* concatenated, are the lowercased cleaned input.                         *)
C3_RoundTrip ==
    (pc = "done" /\ EvenHex(input)) =>
        LET ts == Tokens(result)
        IN  ConcatBackwards([i \in 1..Len(ts) |-> Payload(ts[i])])
                = Lowercased(Cleaned(input))

(* C3 witness: a returned call on two different bytes with an upper-case   *)
(* digit.                                                                  *)
C3_Witness ==
    /\ pc = "done"
    /\ EvenHex(input)
    /\ Cleaned(input) = <<"a", "B", "7", "a">>
    /\ Len(Tokens(result)) = 2

(* C4: inserting spaces and newlines at the start, at the end or between   *)
(* two byte pairs of the input does not change the output.                 *)
C4_SeparatorsBetweenPairs ==
    (pc = "done") =>
        \A k \in 0..Len(input) : \A w \in SeparatorRuns :
            BetweenPairs(input, k) =>
                parse_nist_param(InsertAt(input, k, w)) = result

(* C4 witness: a returned call on two bytes that already has a separator,  *)
(* so that an inserted one is an additional one.                           *)
C4_Witness ==
    /\ pc = "done"
    /\ EvenHex(input)
    /\ Len(Cleaned(input)) = 4
    /\ Len(input) = 5
    /\ BetweenPairs(input, 2)
    /\ Len(result) = 11

(* C5: a hex input, its lower-case form and its upper-case form give the   *)
(* same output, and no output token has an upper-case hex digit.           *)
C5_CaseInsensitive ==
    (pc = "done" /\ IsHexString(Cleaned(input))) =>
        /\ result = parse_nist_param(Lowercased(input))
        /\ result = parse_nist_param(Uppercased(input))
        /\ \A k \in 1..Len(result) : result[k] \notin UpperHexDigits

(* C5 witness: a returned call on an input of mixed case.                  *)
C5_Witness ==
    /\ pc = "done"
    /\ IsHexString(Cleaned(input))
    /\ \E k \in 1..Len(input) : input[k] = "B"
    /\ \E k \in 1..Len(input) : input[k] = "a"
    /\ Lowercased(input) # input
    /\ Uppercased(input) # input
    /\ result # <<>>

(* C6: the function raises no error and returns a complete output for      *)
(* every input, also for an odd number of characters and for characters    *)
(* that are not hex digits: every chunk of the cleaned input has its       *)
(* literal in the output.                                                  *)
C6_NeverRaises ==
    /\ pc # "raised"
    /\ (pc = "done") =>
           LET m == Len(Cleaned(input))
               n == (m + 1) \div 2
           IN  /\ Len(Tokens(result)) = n
               /\ Len(result) = IF m = 0 THEN 0 ELSE m + 3 * n + (n - 1)

(* C6 witness: a returned call on an odd number of characters, one of them *)
(* not a hex digit.                                                        *)
C6_Witness ==
    /\ pc = "done"
    /\ Len(Cleaned(input)) = 3
    /\ ~IsHexString(Cleaned(input))
    /\ Len(Tokens(result)) = 2

(* C7: for a cleaned input of odd length 2n+1 the chunks are aligned from  *)
(* the left: the output has n+1 tokens, the first is "0x" + the lowercased *)
(* last character + ",", and the others are the n full chunks reversed.    *)
C7_OddLengthShortTokenFirst ==
    (pc = "done" /\ Len(Cleaned(input)) % 2 = 1) =>
        LET c == Cleaned(input)
            n == Len(c) \div 2
            ts == Tokens(result)
        IN  /\ Len(ts) = n + 1
            /\ ts[1] = <<"0", "x", LowerOf(c[2 * n + 1]), ",">>
            /\ \A i \in 1..n :
                   At(ts, i + 1) = <<"0", "x", LowerOf(c[2 * (n - i) + 1]),
                                     LowerOf(c[2 * (n - i) + 2]), ",">>

(* C7 witness: a returned call on five characters.                         *)
C7_Witness ==
    /\ pc = "done"
    /\ Cleaned(input) = <<"a", "B", "7", "a", "B">>
    /\ result = <<"0","x","b",","," ","0","x","7","a",","," ","0","x","a","b",",">>

(* C8: an input that is empty or only spaces and newlines gives the empty  *)
(* output: no token and no separator.                                      *)
C8_EmptyOutput ==
    (pc = "done" /\ Cleaned(input) = <<>>) => result = <<>>

(* C8 witness: a returned call on an input of spaces and newlines only.    *)
C8_Witness ==
    /\ pc = "done"
    /\ Len(input) >= 2
    /\ \E k \in 1..Len(input) : input[k] = " "
    /\ \E k \in 1..Len(input) : input[k] = "\n"
    /\ Cleaned(input) = <<>>
    /\ result = <<>>

(* C9 as stated: only the space and the newline are removed, and every     *)
(* other character that is not a hex digit goes into the literal of its    *)
(* chunk verbatim (hex digits lowercased).                                 *)
C9_NonHexVerbatim ==
    (pc = "done") => result = Described([k \in 1..Len(Cleaned(input)) |-> LowerHexOnly(Cleaned(input)[k])])

(* C9 amended: only the space and the newline are removed, and every other *)
(* character that is not a hex digit occupies a position in a chunk like a *)
(* digit and goes into the literal of its chunk lowercased like a digit    *)
(* (so unchanged unless it is an upper-case letter).                       *)
C9_NonHexLowercased ==
    (pc = "done") => result = Described(Lowercased(Cleaned(input)))

(* C9 witness: a returned call on a tab and an upper-case letter beyond F. *)
C9_Witness ==
    /\ pc = "done"
    /\ Cleaned(input) = <<"\t", "G", "a">>
    /\ result = <<"0","x","a",","," ","0","x","\t","g",",">>

(* C10: the output depends only on the cleaned input: it is the output for *)
(* the cleaned input itself, and inserting a separator anywhere, also in   *)
(* the middle of a byte pair, or removing one, does not change it.         *)
C10_DependsOnCleanedOnly ==
    (pc = "done") =>
        /\ result = parse_nist_param(Cleaned(input))
        /\ \A k \in 0..Len(input) : \A c \in Separators :
               parse_nist_param(InsertAt(input, k, <<c>>)) = result
        /\ \A k \in 1..Len(input) :
               (input[k] \in Separators) => parse_nist_param(RemoveAt(input, k)) = result

(* C10 witness: a returned call on an input with a separator inside a byte *)
(* pair.                                                                   *)
C10_Witness ==
    /\ pc = "done"
    /\ Len(input) >= 3
    /\ input[1] \in HexDigits
    /\ input[2] \in Separators
    /\ input[3] \in HexDigits
    /\ result # <<>>

====
